---- MODULE Spec2Model ----
(***************************************************************************)
(* Request admission of a communex module server: the signing protocol,    *)
(* the List / Input Handler / IP limiter verifiers and the route class     *)
(* that chains them (module/routers/module_routers.py), the ModuleServer    *)
(* middleware stack (module/server.py) and the stake limiter               *)
(* (module/_rate_limiters/_stake_limiter.py).                              *)
(*                                                                         *)
(* Values.  A timestamp string is <<kind, t>>: <<"iso", t>> is an ISO-8601 *)
(* UTC string of second t, <<"bad", 0>> a string fromisoformat refuses,    *)
(* <<"none", 0>> an absent value.  Bytes are a record: "json" bytes carry   *)
(* the document they parse to and the formatting they were written with    *)
(* (json.dumps always writes "canon"; another client may send "compact"),  *)
(* wrap counts <Bytes>..</Bytes> envelopes.  A signature records the key    *)
(* that made it and the exact bytes it was made over.  An unhandled         *)
(* exception is the response Fault(kind).                                   *)
(***************************************************************************)
EXTENDS Integers, Sequences, FiniteSets, TLC

\* ------------------------------------------------------------ records
\* every record of the model and its fields, in the order they are written
RecordFields ==
    [path |-> "request", client |-> "request", headers |-> "request",
     body |-> "request",
     x_signature |-> "headers", x_key |-> "headers", x_crypto |-> "headers",
     x_timestamp |-> "headers",
     present |-> "client", host |-> "client",
     status |-> "response", message |-> "response", shape |-> "response",
     header |-> "response",
     kind |-> "bytes", fmt |-> "bytes", doc |-> "bytes", wrap |-> "bytes",
     sig |-> "hex text",
     has_params |-> "document", params |-> "document",
     target_key |-> "params", timestamp |-> "params", msg |-> "params",
     signer |-> "signature", over |-> "signature",
     isNone |-> "list", items |-> "list",
     index |-> "check", result |-> "check",
     pc |-> "call", limiter |-> "call", key |-> "call", at |-> "call",
     ok |-> "call",
     ip_buckets |-> "snapshot", blacklist |-> "snapshot",
     whitelist |-> "snapshot", ip_blacklist |-> "snapshot", now |-> "snapshot",
     tokens |-> "bucket", last_seen |-> "bucket",
     when |-> "rule", answer |-> "rule",
     name |-> "endpoint", fn |-> "endpoint", args |-> "endpoint",
     method |-> "thread"]

\* ------------------------------------------------------------ bounds
MaxTime == 2
request_staleness == 1
bucket_size == 1
refill_rate == 1
epoch == 2
cache_age == 1
MaxMono == 2 * epoch
MaxCalls == 5
MaxStake == 101
MaxThreads == 2
MaxThreadCalls == 3

\* ------------------------------------------------------------ identities
PubKeys == {"pk1", "pk2"}
HostPubKey == "pkS"
NotHexKey == "zz"
BadLenKey == "abcdef"
OddHexKey == "abc"
IPs == {"ip1", "ip2"}
SR25519 == 1

ss58_encode(pk) ==
    CASE pk = "pk1" -> "ss1"
      [] pk = "pk2" -> "ss2"
      [] pk = "pkS" -> "ssS"
      [] OTHER -> "invalid"

\* try_ss58_decode: the address of a public key given as hex text or as bytes,
\* "none" when ss58_encode raises (not hex, or not a public key's length).
try_ss58_decode(key) ==
    IF key \in PubKeys \cup {HostPubKey} THEN ss58_encode(key) ELSE "none"

module_key == ss58_encode(HostPubKey)

\* HEX_PATTERN: every key text of the model but NotHexKey is hex digits
is_hex_string(string) ==
    string \in PubKeys \cup {HostPubKey, BadLenKey, OddHexKey}

\* ------------------------------------------------------------ timestamps
NoTS == <<"none", 0>>
BadTS == <<"bad", 0>>
iso_timestamp_now(t) == <<"iso", t>>
IsoOk(ts) == ts[1] = "iso"
fromisoformat(ts) == ts[2]

\* ------------------------------------------------------------ JSON and bytes
NoParams == [target_key |-> "", timestamp |-> NoTS, msg |-> ""]
JunkDoc == [has_params |-> FALSE, params |-> NoParams, timestamp |-> NoTS]
JunkBytes == [kind |-> "junk", fmt |-> "canon", doc |-> JunkDoc, wrap |-> 0]

json_dumps(doc) == [kind |-> "json", fmt |-> "canon", doc |-> doc, wrap |-> 0]
CanLoad(bytes) == bytes.kind = "json" /\ bytes.wrap = 0
json_loads(bytes) == bytes.doc
serialize(data) == json_dumps(data)
BytesWrap(data) == [data EXCEPT !.wrap = data.wrap + 1]

\* ------------------------------------------------------------ _signer.py
sign(keypair, data) == [signer |-> keypair, over |-> data]

crypto_verify_fn(signature, data, pubkey) ==
    signature.signer = pubkey /\ signature.over = data

CryptoSupported(crypto_type) == crypto_type = SR25519

verify(pubkey, crypto_type, data, signature) ==
    \/ crypto_verify_fn(signature, data, pubkey)
    \/ crypto_verify_fn(signature, BytesWrap(data), pubkey)

\* ------------------------------------------------------------ responses
NoResponse == [status |-> 0, message |-> "", shape |-> "none", header |-> ""]

json_error(code, message) ==
    [status |-> code, message |-> message, shape |-> "error_code_message",
     header |-> ""]

JSONResponse(code, message, header) ==
    [status |-> code, message |-> message, shape |-> "error_string",
     header |-> header]

Fault(kind) ==
    [status |-> 500, message |-> kind, shape |-> "unhandled_exception",
     header |-> ""]

IsFault(r) == r.shape = "unhandled_exception"

\* ------------------------------------------------------------ _protocol.py
NoSig == [kind |-> "none", sig |-> sign("", JunkBytes)]
NotHexSig == [kind |-> "nothex", sig |-> sign("", JunkBytes)]
hex(signature) == [kind |-> "hex", sig |-> signature]
parse_hex_ok(h) == h.kind = "hex"
parse_hex(h) == h.sig

create_headers(signature, my_key, timestamp_iso) ==
    [x_signature |-> hex(signature),
     x_key |-> my_key,
     x_crypto |-> "1",
     x_timestamp |-> timestamp_iso]

create_request_data(my_key, target_key, params, t) ==
    LET timestamp_iso == iso_timestamp_now(t)
        params2 == [params EXCEPT !.target_key = target_key]
        request_data == [has_params |-> TRUE, params |-> params2,
                         timestamp |-> NoTS]
        serialized_data == serialize(request_data)
        stamped == [request_data EXCEPT !.timestamp = timestamp_iso]
        serialized_stamped_data == serialize(stamped)
        signature == sign(my_key, serialized_stamped_data)
    IN  [headers |-> create_headers(signature, my_key, timestamp_iso),
         body |-> serialized_data]

\* ------------------------------------------------------------ state
VARIABLES
    verifiers,          \* build_route_class(verifiers): the ordered verifier list
    blacklist,          \* access lists: [isNone, items]
    whitelist,
    ip_blacklist,
    subnets_whitelist,  \* [isNone, items]
    keys_on_subnet,     \* what blockchain_cache.get_or_insert_lazy returns per subnet
    ip_buckets,         \* TokenBucketLimiter tokens per IP
    now,                \* wall clock, seconds
    request,            \* the request being handled
    pc,                 \* "idle", "route" (inside custom_route_handler), "done"
    idx,                \* position of the for loop over verifiers
    ran,                \* the checks that ran, in order, with answer and time
    response,           \* what custom_route_handler returned
    handler_calls,      \* calls of original_route_handler for this request
    at_arrival,         \* the buckets and access lists when the request arrived
    node_up,            \* a blockchain node accepts connections
    query_error,        \* the node answers a query with an error message
    stake,              \* StakeFrom on the chain: total stake per key
    key_ratio,          \* StakeLimiter.key_ratio: refill ratio per staked key
    key_ratio_age,      \* StakeLimiter.key_ratio_age
    max_cache_age,      \* StakeLimiter.max_cache_age
    buckets,            \* StakeLimiter.buckets: key -> (tokens, last_seen)
    call,               \* the StakeLimiter call in progress
    calls,              \* the StakeLimiter calls that returned, in order
    module_methods,     \* the Module's methods by name: decorated with @endpoint?
    routes,             \* the app's POST routes: endpoint name -> the function
                        \* its handler calls
    invoked,            \* the endpoint function called for the latest request
    threads,            \* the threads calling the StakeLimiter: where each is
                        \* in its call, and the tokens it read
    lock                \* StakeLimiter._lock: the thread holding it, 0 when free

module_vars == <<module_methods, routes, invoked>>

thread_vars == <<threads, lock>>

limiter_vars == <<node_up, query_error, stake, key_ratio, key_ratio_age, max_cache_age,
                  buckets, call, calls>>

vars == <<verifiers, blacklist, whitelist, ip_blacklist, subnets_whitelist,
          keys_on_subnet, ip_buckets, now, request, pc, idx, ran, response,
          handler_calls, at_arrival, limiter_vars, module_vars, thread_vars>>

NoneList == [isNone |-> TRUE, items |-> {}]
ListOf(S) == [isNone |-> FALSE, items |-> S]
Truthy(l) == ~l.isNone /\ l.items # {}

Snapshot ==
    [ip_buckets |-> ip_buckets, blacklist |-> blacklist,
     whitelist |-> whitelist, ip_blacklist |-> ip_blacklist, now |-> now]

\* no request is being handled
NoSnapshot ==
    [ip_buckets |-> [ip \in IPs |-> 0], blacklist |-> NoneList,
     whitelist |-> NoneList, ip_blacklist |-> NoneList, now |-> 0]

\* ------------------------------------------------------------ requests
NoClient == [present |-> FALSE, host |-> ""]
ClientAt(ip) == [present |-> TRUE, host |-> ip]

MkRequest(path, client, x_signature, x_key, x_crypto, x_timestamp, body) ==
    [path |-> path, client |-> client,
     headers |-> [x_signature |-> x_signature, x_key |-> x_key,
                  x_crypto |-> x_crypto, x_timestamp |-> x_timestamp],
     body |-> body]

NoRequest == MkRequest("", NoClient, NoSig, "", "", NoTS, JunkBytes)

UnderMethod(req) == req.path = "/method/prompt"

\* int(headers_dict["x-crypto"])
int_ok(s) == s \in {"1", "2"}
int_of(s) == IF s = "1" THEN 1 ELSE 2

\* bytes.fromhex on text that passed is_hex_string: an odd number of digits fails
fromhex_ok(key) == key # OddHexKey
\* bytes.decode() of a key that is no public key: BadLenKey is not UTF-8
decode_ok(key) == key # BadLenKey

\* ------------------------------------------------------------ ListVerifier
ListVerifier_verify_whitelist_wins(req) ==
    LET key == req.headers.x_key
        ss58 == try_ss58_decode(key)
    IN  IF key = "" THEN json_error(400, "Missing header: X-Key")
        ELSE IF ss58 = "none"
        THEN json_error(400, "Caller key could not be decoded into a ss58address")
        ELSE IF ~req.client.present
        THEN json_error(400, "Address should be present in request")
        ELSE IF Truthy(whitelist) /\ ss58 \in whitelist.items
        THEN NoResponse
        ELSE IF Truthy(blacklist) /\ ss58 \in blacklist.items
        THEN json_error(403, "You are blacklisted")
        ELSE IF Truthy(ip_blacklist) /\ req.client.host \in ip_blacklist.items
        THEN json_error(403, "Your IP is blacklisted")
        ELSE IF Truthy(whitelist)
        THEN json_error(403, "You are not whitelisted")
        ELSE NoResponse

ListVerifier_verify_whitelist_before_ip(req) ==
    LET key == req.headers.x_key
        ss58 == try_ss58_decode(key)
    IN  IF key = "" THEN json_error(400, "Missing header: X-Key")
        ELSE IF ss58 = "none"
        THEN json_error(400, "Caller key could not be decoded into a ss58address")
        ELSE IF ~req.client.present
        THEN json_error(400, "Address should be present in request")
        ELSE IF Truthy(blacklist) /\ ss58 \in blacklist.items
        THEN json_error(403, "You are blacklisted")
        ELSE IF Truthy(whitelist) /\ ss58 \notin whitelist.items
        THEN json_error(403, "You are not whitelisted")
        ELSE IF Truthy(ip_blacklist) /\ req.client.host \in ip_blacklist.items
        THEN json_error(403, "Your IP is blacklisted")
        ELSE NoResponse

ListVerifier_verify(req) ==
    LET key == req.headers.x_key
        ss58 == try_ss58_decode(key)
    IN  IF key = "" THEN json_error(400, "Missing header: X-Key")
        ELSE IF ss58 = "none"
        THEN json_error(400, "Caller key could not be decoded into a ss58address")
        ELSE IF ~req.client.present
        THEN json_error(400, "Address should be present in request")
        ELSE IF Truthy(blacklist) /\ ss58 \in blacklist.items
        THEN json_error(403, "You are blacklisted")
        ELSE IF Truthy(ip_blacklist) /\ req.client.host \in ip_blacklist.items
        THEN json_error(403, "Your IP is blacklisted")
        ELSE IF Truthy(whitelist) /\ ss58 \notin whitelist.items
        THEN json_error(403, "You are not whitelisted")
        ELSE NoResponse

\* ------------------------------------------------------------ InputHandlerVerifier
get_headers_dict(headers) ==
    IF headers.x_signature.kind = "none"
    THEN json_error(400, "Missing header: x-signature")
    ELSE IF headers.x_key = "" THEN json_error(400, "Missing header: x-key")
    ELSE IF headers.x_crypto = "" THEN json_error(400, "Missing header: x-crypto")
    ELSE NoResponse

stamped_body_in_params(body, timestamp) ==
    json_dumps([json_loads(body) EXCEPT !.params.timestamp = timestamp])

\* the legacy attempt of _check_signature: the body re-serialized with the
\* X-Timestamp header added
stamped_body(body, timestamp) ==
    json_dumps([json_loads(body) EXCEPT !.timestamp = timestamp])

legacy_verified_any_timestamp(headers_dict, body) ==
    \E timestamp \in {NoTS} \cup {iso_timestamp_now(t) : t \in 0..MaxTime} :
        verify(headers_dict.x_key, int_of(headers_dict.x_crypto),
               stamped_body(body, timestamp), parse_hex(headers_dict.x_signature))

legacy_verified(headers_dict, body) ==
    /\ headers_dict.x_timestamp # NoTS
    /\ verify(headers_dict.x_key, int_of(headers_dict.x_crypto),
              stamped_body(body, headers_dict.x_timestamp),
              parse_hex(headers_dict.x_signature))

verified(headers_dict, body) ==
    verify(headers_dict.x_key, int_of(headers_dict.x_crypto), body,
           parse_hex(headers_dict.x_signature))

check_target_key_absent_passes(body, mk) ==
    IF ~CanLoad(body) THEN Fault("JSONDecodeError")
    ELSE IF ~json_loads(body).has_params THEN Fault("KeyError: params")
    ELSE LET target_key == json_loads(body).params.target_key
         IN  IF target_key # "" /\ target_key # mk
             THEN json_error(401, "Wrong target_key in body")
             ELSE NoResponse

check_target_key(body, mk) ==
    IF ~CanLoad(body) THEN Fault("JSONDecodeError")
    ELSE IF ~json_loads(body).has_params THEN Fault("KeyError: params")
    ELSE LET target_key == json_loads(body).params.target_key
         IN  IF target_key = "" \/ target_key # mk
             THEN json_error(401, "Wrong target_key in body")
             ELSE NoResponse

check_signature(headers_dict, body, mk) ==
    LET key == headers_dict.x_key
        signature == headers_dict.x_signature
        timestamp == headers_dict.x_timestamp
    IN  IF ~int_ok(headers_dict.x_crypto) THEN Fault("ValueError: int")
        ELSE IF ~is_hex_string(key)
        THEN json_error(400, "X-Key should be a hex value")
        ELSE IF ~parse_hex_ok(signature)
        THEN json_error(400, "Signature sent is not a valid hex value")
        ELSE IF ~fromhex_ok(key)
        THEN json_error(400, "Key sent is not a valid hex value")
        ELSE IF try_ss58_decode(key) = "none"
        THEN IF decode_ok(key)
             THEN json_error(400, "Caller key could not be decoded into a ss58address")
             ELSE Fault("UnicodeDecodeError")
        ELSE IF timestamp # NoTS /\ ~CanLoad(body) THEN Fault("JSONDecodeError")
        ELSE IF ~CryptoSupported(int_of(headers_dict.x_crypto))
        THEN Fault("ConfigurationError: Crypto type not supported")
        ELSE IF ~verified(headers_dict, body) /\ ~legacy_verified(headers_dict, body)
        THEN json_error(401, "Signatures doesn't match")
        ELSE check_target_key(body, mk)

\* client.query_map_key(subnet): _send_batch raises NetworkQueryError when the
\* node's reply carries an error; NetworkError derives from BaseException
query_map_key_raises == node_up /\ query_error

\* query_keys as InputHandlerVerifier wraps it: `except Exception` turns a
\* failed connection into the empty list
query_keys_caught(subnet) ==
    IF ~node_up THEN {} ELSE keys_on_subnet[subnet]

\* blockchain_cache.get_or_insert_lazy(cache_key, get_keys_on_subnet) on a
\* miss or an expired entry: the value the function returns
get_or_insert_lazy(subnet) == query_keys_caught(subnet)

check_key_registered(headers_dict) ==
    LET key == headers_dict.x_key
        ss58 == try_ss58_decode(key)
        subnets == subnets_whitelist.items
        got_keys == \E s \in subnets : get_or_insert_lazy(s) # {}
        allowed_subnets == {s \in subnets : module_key \in get_or_insert_lazy(s)}
        caller_subnets == {s \in subnets : ss58 \in get_or_insert_lazy(s)}
    IN  IF ~is_hex_string(key)
        THEN json_error(400, "X-Key should be a hex value")
        ELSE IF ~fromhex_ok(key) THEN Fault("ValueError: fromhex")
        ELSE IF ss58 = "none"
        THEN IF decode_ok(key)
             THEN json_error(400, "Caller key could not be decoded into a ss58address")
             ELSE Fault("UnicodeDecodeError")
        ELSE IF subnets_whitelist.isNone THEN NoResponse
        ELSE IF subnets # {} /\ query_map_key_raises
        THEN Fault("NetworkQueryError")
        ELSE IF ~got_keys
        THEN json_error(503, "Miner could not connect to a blockchain node or there is no key registered on the subnet(s)")
        ELSE IF allowed_subnets = {}
        THEN json_error(403, "Miner is not registered on any subnet")
        ELSE IF allowed_subnets \cap caller_subnets = {}
        THEN json_error(403, "Caller key is not registered in any subnet that the miner is")
        ELSE NoResponse

check_inputs(req, body, mk) ==
    LET h == get_headers_dict(req.headers)
        s == check_signature(req.headers, body, mk)
    IN  IF h # NoResponse THEN h
        ELSE IF s # NoResponse THEN s
        ELSE check_key_registered(req.headers)

\* the timestamp verify() evaluates staleness against
timestamp_to_use(req) ==
    LET timestamp == json_loads(req.body).params.timestamp
        legacy_timestamp == req.headers.x_timestamp
    IN  IF legacy_timestamp = NoTS THEN timestamp ELSE legacy_timestamp

too_stale_at_window(t, request_time) == t - request_time >= request_staleness

too_stale(t, request_time) == t - request_time > request_staleness

InputHandlerVerifier_verify(req, t) ==
    LET c == check_inputs(req, req.body, module_key)
    IN  IF c # NoResponse THEN c
        ELSE IF ~IsoOk(timestamp_to_use(req))
        THEN JSONResponse(400, "Invalid ISO timestamp given", "")
        ELSE IF too_stale(t, fromisoformat(timestamp_to_use(req)))
        THEN JSONResponse(400, "Request is too stale", "")
        ELSE NoResponse

\* ------------------------------------------------------------ IpLimiterVerifier
\* TokenBucketLimiter.allow(ip): one token is taken when the bucket holds one
limiter_allow(ip) == ip_buckets[ip] >= 1

limiter_after(ip) ==
    IF limiter_allow(ip) THEN [ip_buckets EXCEPT ![ip] = @ - 1] ELSE ip_buckets

IpLimiterVerifier_verify(req) ==
    IF ~req.client.present THEN Fault("AssertionError: request is invalid")
    ELSE IF req.client.host = "" THEN Fault("AssertionError: request is invalid.")
    ELSE IF ~limiter_allow(req.client.host)
    THEN JSONResponse(429, "Rate limit exceeded", "X-RateLimit-Remaining")
    ELSE NoResponse

IpLimiterVerifier_buckets(req) ==
    IF req.client.present /\ req.client.host # ""
    THEN limiter_after(req.client.host)
    ELSE ip_buckets

\* ------------------------------------------------------------ build_route_class
VerifierKinds == {"list", "input", "ip"}

verifier_verify(kind, req) ==
    CASE kind = "list" -> ListVerifier_verify(req)
      [] kind = "input" -> InputHandlerVerifier_verify(req, now)
      [] OTHER -> IpLimiterVerifier_verify(req)

\* the route's own handler: FastAPI validates the body against the endpoint's
\* Body model and calls the endpoint function
original_route_handler(req) ==
    IF ~UnderMethod(req)
    THEN [status |-> 200, message |-> "other route", shape |-> "handler",
          header |-> ""]
    ELSE IF CanLoad(req.body) /\ json_loads(req.body).has_params
            /\ json_loads(req.body).params.msg # ""
    THEN [status |-> 200, message |-> json_loads(req.body).params.msg,
          shape |-> "handler", header |-> ""]
    ELSE [status |-> 422, message |-> "validation error",
          shape |-> "validation_error", header |-> ""]

is_rejection_only_faults(resp) == IsFault(resp)

\* `if response is not None: return response`
is_rejection(resp) == resp # NoResponse

Receive(req) ==
    /\ pc = "idle"
    /\ request' = req
    /\ pc' = "route"
    /\ idx' = 1
    /\ ran' = <<>>
    /\ response' = NoResponse
    /\ handler_calls' = 0
    /\ at_arrival' = Snapshot
    /\ UNCHANGED <<thread_vars, module_vars, limiter_vars, verifiers, blacklist, whitelist, ip_blacklist,
                   subnets_whitelist, keys_on_subnet, ip_buckets, now>>

\* a path outside /method goes straight to the route's handler
PassThrough ==
    /\ pc = "route"
    /\ ~UnderMethod(request)
    /\ response' = original_route_handler(request)
    /\ handler_calls' = handler_calls + 1
    /\ pc' = "done"
    /\ UNCHANGED <<thread_vars, module_vars, limiter_vars, verifiers, blacklist, whitelist, ip_blacklist,
                   subnets_whitelist, keys_on_subnet, ip_buckets, now, request,
                   idx, ran, at_arrival>>

\* one turn of `for verifier in verifiers`
RunVerifier ==
    /\ pc = "route"
    /\ UnderMethod(request)
    /\ idx <= Len(verifiers)
    /\ verifiers[idx] \in VerifierKinds
    /\ LET resp == verifier_verify(verifiers[idx], request)
       IN  /\ ran' = Append(ran, [index |-> idx, result |-> resp, at |-> now])
           /\ ip_buckets' = IF verifiers[idx] = "ip"
                            THEN IpLimiterVerifier_buckets(request)
                            ELSE ip_buckets
           /\ IF is_rejection(resp)
              THEN /\ response' = resp
                   /\ pc' = "done"
                   /\ idx' = idx
              ELSE /\ response' = response
                   /\ pc' = pc
                   /\ idx' = idx + 1
    /\ UNCHANGED <<thread_vars, module_vars, limiter_vars, verifiers, blacklist, whitelist, ip_blacklist,
                   subnets_whitelist, keys_on_subnet, now, request,
                   handler_calls, at_arrival>>

\* the loop is over: `await original_route_handler(request)`
CallHandler ==
    /\ pc = "route"
    /\ UnderMethod(request)
    /\ idx > Len(verifiers)
    /\ response' = original_route_handler(request)
    /\ handler_calls' = handler_calls + 1
    /\ pc' = "done"
    /\ UNCHANGED <<thread_vars, module_vars, limiter_vars, verifiers, blacklist, whitelist, ip_blacklist,
                   subnets_whitelist, keys_on_subnet, ip_buckets, now, request,
                   idx, ran, at_arrival>>

\* the response is sent; the server waits for the next request
Finish ==
    /\ pc = "done"
    /\ pc' = "idle"
    /\ request' = NoRequest
    /\ response' = NoResponse
    /\ idx' = 1
    /\ ran' = <<>>
    /\ handler_calls' = 0
    /\ at_arrival' = NoSnapshot
    /\ UNCHANGED <<thread_vars, module_vars, limiter_vars, verifiers, blacklist, whitelist, ip_blacklist,
                   subnets_whitelist, keys_on_subnet, ip_buckets, now>>

Min(a, b) == IF a < b THEN a ELSE b

\* a second passes; the token buckets earn refill_rate tokens up to bucket_size
Pass(limit) ==
    /\ now < limit
    /\ now' = now + 1
    /\ ip_buckets' = [ip \in IPs |-> Min(bucket_size, ip_buckets[ip] + refill_rate)]
    /\ UNCHANGED <<thread_vars, module_vars, limiter_vars, verifiers, blacklist, whitelist, ip_blacklist,
                   subnets_whitelist, keys_on_subnet, request, pc, idx, ran,
                   response, handler_calls, at_arrival>>

Tick == Pass(MaxTime)

\* ------------------------------------------------------------ StakeLimiter
\* Stake is counted in units of 10 000 COMAI, so the tiers of stake_to_ratio
\* begin at 1, 10 and 100 units.  Ratios and tokens are counted in halves
\* (the lowest paid tier is half a token per epoch): ratio 0.5 is 1, 1 is 2,
\* 2 is 4, and one token is 2.
stake_to_ratio_top_tier_lower(s) ==
    IF s < 1 THEN 0
    ELSE IF s < 10 THEN 1
    ELSE IF s < 100 THEN 2
    ELSE 1

stake_to_ratio(s) ==
    IF s < 1 THEN 0
    ELSE IF s < 10 THEN 1
    ELSE IF s < 100 THEN 2
    ELSE 4

\* key_ratio as __init__ (and a cache refresh) computes it from the chain
build_keys_refill_rate(netuid) ==
    IF netuid.isNone THEN <<>>
    ELSE [k \in DOMAIN stake |-> stake_to_ratio(stake[k])]

NoCall == [pc |-> "idle", key |-> ""]

ratio_of(key) == IF key \in DOMAIN key_ratio THEN key_ratio[key] ELSE 0

\* _get_key_refresh_ratio finds the cache too old and takes self._lock
cache_too_old == now - key_ratio_age > max_cache_age

MaxOf(S) == CHOOSE m \in S : \A x \in S : x <= m

max_key_ratio == MaxOf({key_ratio[k] : k \in DOMAIN key_ratio})

new_tokens_ratio_per_second(key) ==
    ((now - buckets[key].last_seen) * ratio_of(key)) \div 2

\* floor((monotonic() - last_seen) * key_rate), key_rate = ratio / epoch
new_tokens(key) ==
    ((now - buckets[key].last_seen) * ratio_of(key)) \div (2 * epoch)

\* int(max(1, ratio_per_epoch)) tokens
fill_tokens(key) ==
    IF ratio_of(key) <= 2 THEN 2 ELSE 2 * (ratio_of(key) \div 2)

set_tokens(b, key, tokens) ==
    (key :> [tokens |-> tokens, last_seen |-> now]) @@ b

refill_capped_at_own_rate(key) ==
    IF key \notin DOMAIN buckets THEN set_tokens(buckets, key, fill_tokens(key))
    ELSE IF new_tokens(key) <= 0 THEN buckets
    ELSE set_tokens(buckets, key,
                    Min(buckets[key].tokens + 2 * new_tokens(key), ratio_of(key)))

refill(key) ==
    IF key \notin DOMAIN buckets THEN set_tokens(buckets, key, fill_tokens(key))
    ELSE IF new_tokens(key) <= 0 THEN buckets
    ELSE set_tokens(buckets, key,
                    Min(buckets[key].tokens + 2 * new_tokens(key), max_key_ratio))

\* _allow: a whole token is taken when the refilled bucket holds one
allow_ok(key) == refill(key)[key].tokens >= 2

allow_buckets(key) ==
    IF allow_ok(key)
    THEN set_tokens(refill(key), key, refill(key)[key].tokens - 2)
    ELSE refill(key)

Returned(limiter, key, ok) ==
    Append(calls, [limiter |-> limiter, key |-> key, at |-> now, ok |-> ok])

test_mode_never == FALSE

\* `if not self.whitelist`: no subnet whitelist, "basically test mode that
\* disables validation"
test_mode == ~Truthy(subnets_whitelist)

\* StakeLimiter.allow(key).  With the lock held, _refill or _fill asks
\* _get_key_refresh_ratio for the rate; when the cache is too old that takes
\* self._lock, a threading.Lock the caller already holds: the call never returns.
Allow(key) ==
    /\ call.pc = "idle"
    /\ Len(calls) < MaxCalls
    /\ IF test_mode
       THEN /\ calls' = Returned("stake", key, TRUE)
            /\ UNCHANGED <<buckets, call>>
       ELSE IF cache_too_old
       THEN /\ call' = [pc |-> "blocked", key |-> key]
            /\ UNCHANGED <<buckets, calls>>
       ELSE /\ buckets' = allow_buckets(key)
            /\ calls' = Returned("stake", key, allow_ok(key))
            /\ UNCHANGED call
    /\ UNCHANGED <<thread_vars, module_vars, node_up, query_error, stake, key_ratio, key_ratio_age, max_cache_age,
                   verifiers, blacklist, whitelist, ip_blacklist,
                   subnets_whitelist, keys_on_subnet, ip_buckets, now, request,
                   pc, idx, ran, response, handler_calls, at_arrival>>

\* TokenBucketLimiter.allow(ip), as IpLimiterVerifier calls it
IpAllow(ip) ==
    /\ call.pc = "idle"
    /\ Len(calls) < MaxCalls
    /\ calls' = Returned("ip", ip, limiter_allow(ip))
    /\ ip_buckets' = limiter_after(ip)
    /\ UNCHANGED <<thread_vars, module_vars, node_up, query_error, stake, key_ratio, key_ratio_age, max_cache_age,
                   buckets, call, verifiers, blacklist, whitelist, ip_blacklist,
                   subnets_whitelist, keys_on_subnet, now, request, pc, idx,
                   ran, response, handler_calls, at_arrival>>

Elapse == Pass(MaxMono)

\* ------------------------------------------------------------ StakeLimiter, threads
Threads == 1..MaxThreads

IdleThread == [pc |-> "idle", key |-> "", ok |-> FALSE, tokens |-> 0, method |-> ""]

\* no thread is inside the limiter
NoThreads ==
    /\ threads = [t \in Threads |-> IdleThread]
    /\ lock = 0

lock_not_taken(t) == TRUE

\* threading.Lock.acquire: the lock is free.  The lock is not reentrant: the
\* thread that holds it cannot take it again
lock_free(t) == lock = 0

\* a thread calls allow, remaining or retry_after of a limiter that has a
\* subnet whitelist and comes to `with self._lock`; the calls of allow are
\* logged and counted
ThreadCall(t) ==
    /\ threads[t].pc = "idle"
    /\ ~test_mode
    /\ \E method \in {"allow", "remaining", "retry_after"} :
           /\ method = "allow" =>
                  Len(calls) + Cardinality({u \in Threads : threads[u].method = "allow"})
                      < MaxThreadCalls
           /\ threads' = [threads EXCEPT ![t] =
                              [pc |-> "with_lock", key |-> "pk1", ok |-> FALSE,
                               tokens |-> 0, method |-> method]]
    /\ UNCHANGED <<lock, module_vars, node_up, query_error, stake, key_ratio,
                   key_ratio_age, max_cache_age, buckets, call, calls,
                   verifiers, blacklist, whitelist, ip_blacklist,
                   subnets_whitelist, keys_on_subnet, ip_buckets, now, request,
                   pc, idx, ran, response, handler_calls, at_arrival>>

\* `with self._lock:` of allow, remaining and retry_after
ThreadLock(t) ==
    /\ threads[t].pc = "with_lock"
    /\ lock_free(t)
    /\ lock' = t
    /\ threads' = [threads EXCEPT ![t].pc = "_remaining"]
    /\ UNCHANGED <<module_vars, node_up, query_error, stake, key_ratio,
                   key_ratio_age, max_cache_age, buckets, call, calls,
                   verifiers, blacklist, whitelist, ip_blacklist,
                   subnets_whitelist, keys_on_subnet, ip_buckets, now, request,
                   pc, idx, ran, response, handler_calls, at_arrival>>

\* _remaining(key): _refill asks _get_key_refresh_ratio for the rate, which
\* takes self._lock again when the cache is too old; otherwise the bucket is
\* filled or refilled and its tokens are read
ThreadRemaining(t) ==
    /\ threads[t].pc = "_remaining"
    /\ IF cache_too_old
       THEN /\ threads' = [threads EXCEPT ![t].pc = "blocked"]
            /\ UNCHANGED buckets
       ELSE /\ buckets' = refill(threads[t].key)
            /\ threads' = [threads EXCEPT
                              ![t].pc = "read",
                              ![t].tokens = refill(threads[t].key)[threads[t].key].tokens]
    /\ UNCHANGED <<lock, module_vars, node_up, query_error, stake, key_ratio,
                   key_ratio_age, max_cache_age, call, calls,
                   verifiers, blacklist, whitelist, ip_blacklist,
                   subnets_whitelist, keys_on_subnet, ip_buckets, now, request,
                   pc, idx, ran, response, handler_calls, at_arrival>>

\* the rest of the call: _allow writes tokens - 1 when it read a whole token;
\* remaining and retry_after write nothing; the with block ends and the call
\* returns (retry_after by raising AssertionError for a key of rate 0)
ThreadReturn(t) ==
    /\ threads[t].pc = "read"
    /\ LET key == threads[t].key
           ok == threads[t].tokens >= 2
       IN  /\ buckets' = IF threads[t].method = "allow" /\ ok
                         THEN set_tokens(buckets, key, threads[t].tokens - 2)
                         ELSE buckets
           /\ calls' = IF threads[t].method = "allow"
                       THEN Returned("allow", key, ok) ELSE calls
    /\ threads' = [threads EXCEPT ![t] = IdleThread]
    /\ lock' = IF lock = t THEN 0 ELSE lock
    /\ UNCHANGED <<module_vars, node_up, query_error, stake, key_ratio,
                   key_ratio_age, max_cache_age, call,
                   verifiers, blacklist, whitelist, ip_blacklist,
                   subnets_whitelist, keys_on_subnet, ip_buckets, now, request,
                   pc, idx, ran, response, handler_calls, at_arrival>>

ThreadStep(t) == ThreadLock(t) \/ ThreadRemaining(t) \/ ThreadReturn(t)

\* ------------------------------------------------------------ StakeLimiterVerifier
\* what `await x` makes of a value: StakeLimiter.allow and retry_after are plain
\* methods (def, not async def), so what the verifier awaits is a bool or an
\* int, and awaiting one raises TypeError
awaitable(method) == method \notin {"StakeLimiter.allow", "StakeLimiter.retry_after"}

\* _retry_after for a key whose bucket holds less than a token:
\* `assert key_rate > 0`, then ceil(1 / key_rate) with key_rate = ratio / epoch
retry_after_asserts(key) == ratio_of(key) = 0

retry_after_seconds(key) == ((2 * epoch) + ratio_of(key) - 1) \div ratio_of(key)

\* the answer of StakeLimiterVerifier.verify once limiter.allow(key) returned
\* is_allowed
StakeLimiterVerifier_answer(key, is_allowed) ==
    IF ~awaitable("StakeLimiter.allow")
    THEN Fault("TypeError: object bool can't be used in 'await' expression")
    ELSE IF is_allowed THEN NoResponse
    ELSE IF retry_after_asserts(key) THEN Fault("AssertionError")
    ELSE IF ~awaitable("StakeLimiter.retry_after")
    THEN Fault("TypeError: object int can't be used in 'await' expression")
    ELSE JSONResponse(429, "Rate limit exceeded", "X-RateLimit-TryAfter")

\* the loop reaches a StakeLimiterVerifier.  limiter.allow(key) runs to its end
\* before its value is awaited; with a key-ratio cache that is too old it never
\* returns, and the request is never answered.
RunStakeVerifier ==
    /\ pc = "route"
    /\ UnderMethod(request)
    /\ idx <= Len(verifiers)
    /\ verifiers[idx] = "stake"
    /\ call.pc = "idle"
    /\ LET key == request.headers.x_key
           early == IF ~request.client.present
                    THEN JSONResponse(401, "Address should be present in request", "")
                    ELSE IF key = ""
                    THEN JSONResponse(401, "Valid X-Key not provided on headers", "")
                    ELSE NoResponse
           bypass == test_mode
           is_allowed == bypass \/ allow_ok(key)
           resp == IF early # NoResponse THEN early
                   ELSE StakeLimiterVerifier_answer(key, is_allowed)
       IN  IF early = NoResponse /\ ~bypass /\ cache_too_old
           THEN /\ call' = [pc |-> "blocked", key |-> key]
                /\ UNCHANGED <<buckets, calls, ran, response, pc, idx>>
           ELSE /\ buckets' = IF early = NoResponse /\ ~bypass
                              THEN allow_buckets(key) ELSE buckets
                /\ calls' = IF early = NoResponse
                            THEN Returned("stake", key, is_allowed) ELSE calls
                /\ ran' = Append(ran, [index |-> idx, result |-> resp, at |-> now])
                /\ IF is_rejection(resp)
                   THEN /\ response' = resp
                        /\ pc' = "done"
                        /\ idx' = idx
                   ELSE /\ response' = response
                        /\ pc' = pc
                        /\ idx' = idx + 1
                /\ UNCHANGED call
    /\ UNCHANGED <<thread_vars, module_vars, node_up, query_error, stake, key_ratio, key_ratio_age, max_cache_age,
                   verifiers, blacklist, whitelist, ip_blacklist,
                   subnets_whitelist, keys_on_subnet, ip_buckets, now, request,
                   handler_calls, at_arrival>>

\* limiters.py, StakeLimiterRouter.custom_route_hanlder: every request makes
\* a StakeLimiter of its own, with a snapshot read at that moment and no
\* buckets, and drops it when it returns; the first allow of a new limiter
\* fills the key's bucket with at least one token and takes one
StakeLimiterRouter ==
    /\ pc = "route"
    /\ UnderMethod(request)
    /\ idx <= Len(verifiers)
    /\ verifiers[idx] = "stake_router"
    /\ LET key == request.headers.x_key
           early == IF ~request.client.present
                    THEN JSONResponse(401, "Address should be present in request", "")
                    ELSE IF key = ""
                    THEN JSONResponse(401, "Valid X-Key not provided on headers", "")
                    ELSE NoResponse
           is_allowed == test_mode \/ fill_tokens(key) >= 2
           resp == IF early # NoResponse THEN early
                   ELSE StakeLimiterVerifier_answer(key, is_allowed)
       IN  /\ calls' = IF early = NoResponse
                       THEN Returned("stake", key, is_allowed) ELSE calls
           /\ ran' = Append(ran, [index |-> idx, result |-> resp, at |-> now])
           /\ IF is_rejection(resp)
              THEN /\ response' = resp
                   /\ pc' = "done"
                   /\ idx' = idx
              ELSE /\ response' = response
                   /\ pc' = pc
                   /\ idx' = idx + 1
    /\ UNCHANGED <<thread_vars, module_vars, node_up, query_error, stake, key_ratio,
                   key_ratio_age, max_cache_age, buckets, call,
                   verifiers, blacklist, whitelist, ip_blacklist,
                   subnets_whitelist, keys_on_subnet, ip_buckets, now, request,
                   handler_calls, at_arrival>>

\* ------------------------------------------------------------ module/server.py
\* ModuleServer.__init__ adds the limiter middleware, then check_lists, then
\* the router whose routes are InputHandlerRoute: a request meets check_lists
\* first (the middleware added last is outermost), then the limiter, then
\* the route.

\* scalecodec's ss58_encode accepts the hex text of a public key only
ss58_encode_ok(key) == key \in PubKeys \cup {HostPubKey}

\* the lists as they were when the server was constructed
check_lists_constructor_lists(req) ==
    LET key == req.headers.x_key
    IN  IF ~UnderMethod(req) THEN NoResponse
        ELSE IF key = "" THEN json_error(400, "Missing header: X-Key")
        ELSE IF ~ss58_encode_ok(key) THEN Fault("ValueError: ss58_encode")
        ELSE IF ~req.client.present
        THEN json_error(400, "Address should be present in request")
        ELSE IF Truthy(ip_blacklist) /\ req.client.host \in ip_blacklist.items
        THEN json_error(403, "Your IP is blacklisted")
        ELSE NoResponse

check_lists(req) ==
    LET key == req.headers.x_key
        ss58 == ss58_encode(key)
    IN  IF ~UnderMethod(req) THEN NoResponse
        ELSE IF key = "" THEN json_error(400, "Missing header: X-Key")
        ELSE IF ~ss58_encode_ok(key) THEN Fault("ValueError: ss58_encode")
        ELSE IF ~req.client.present
        THEN json_error(400, "Address should be present in request")
        ELSE IF Truthy(blacklist) /\ ss58 \in blacklist.items
        THEN json_error(403, "You are blacklisted")
        ELSE IF Truthy(ip_blacklist) /\ req.client.host \in ip_blacklist.items
        THEN json_error(403, "Your IP is blacklisted")
        ELSE IF Truthy(whitelist) /\ ss58 \notin whitelist.items
        THEN json_error(403, "You are not whitelisted")
        ELSE NoResponse

IpLimiterMiddleware_dispatch(req) ==
    IF ~req.client.present THEN Fault("AssertionError: request is invalid")
    ELSE IF req.client.host = "" THEN Fault("AssertionError: request is invalid.")
    ELSE IF ~limiter_allow(req.client.host)
    THEN JSONResponse(429, "Rate limit exceeded", "X-RateLimit-Remaining")
    ELSE NoResponse

server_check_signature(headers_dict, body, mk) ==
    LET key == headers_dict.x_key
        signature == headers_dict.x_signature
        timestamp == headers_dict.x_timestamp
    IN  IF ~int_ok(headers_dict.x_crypto) THEN Fault("ValueError: int")
        ELSE IF ~is_hex_string(key)
        THEN json_error(400, "X-Key should be a hex value")
        ELSE IF ~parse_hex_ok(signature) THEN Fault("ValueError: fromhex")
        ELSE IF ~fromhex_ok(key) THEN Fault("ValueError: fromhex")
        ELSE IF timestamp # NoTS /\ ~CanLoad(body) THEN Fault("JSONDecodeError")
        ELSE IF ~CryptoSupported(int_of(headers_dict.x_crypto))
        THEN Fault("ConfigurationError: Crypto type not supported")
        ELSE IF ~verified(headers_dict, body) /\ ~legacy_verified(headers_dict, body)
        THEN json_error(401, "Signatures doesn't match")
        ELSE check_target_key(body, mk)

\* a chain client is made for every request; the caller must be registered on
\* every whitelisted subnet
server_check_key_registered(headers_dict) ==
    LET key == headers_dict.x_key
        ss58 == ss58_encode(key)
    IN  IF ~is_hex_string(key)
        THEN json_error(400, "X-Key should be a hex value")
        ELSE IF ~fromhex_ok(key) THEN Fault("ValueError: fromhex")
        ELSE IF ~node_up THEN Fault("ConnectionError")
        ELSE IF ~ss58_encode_ok(key) THEN Fault("ValueError: ss58_encode")
        ELSE IF ~subnets_whitelist.isNone /\ subnets_whitelist.items # {}
                /\ query_map_key_raises
        THEN Fault("NetworkQueryError")
        ELSE IF ~subnets_whitelist.isNone
                /\ \E sn \in subnets_whitelist.items : ss58 \notin keys_on_subnet[sn]
        THEN json_error(403, "Key is not registered on the network")
        ELSE NoResponse

InputHandlerRoute_check_inputs(req, body, mk) ==
    LET h == get_headers_dict(req.headers)
        sg == server_check_signature(req.headers, body, mk)
    IN  IF h # NoResponse THEN h
        ELSE IF sg # NoResponse THEN sg
        ELSE server_check_key_registered(req.headers)

\* InputHandlerRoute.custom_route_handler up to the call of the endpoint
InputHandlerRoute_checks(req, t) ==
    LET c == InputHandlerRoute_check_inputs(req, req.body, module_key)
    IN  IF c # NoResponse THEN c
        ELSE IF ~IsoOk(timestamp_to_use(req))
        THEN JSONResponse(400, "Invalid ISO timestamp given", "")
        ELSE IF too_stale(t, fromisoformat(timestamp_to_use(req)))
        THEN JSONResponse(400, "Request is too stale", "")
        ELSE NoResponse

ServerReceive(req) ==
    /\ pc = "idle"
    /\ request' = req
    /\ pc' = "check_lists"
    /\ idx' = 1
    /\ ran' = <<>>
    /\ response' = NoResponse
    /\ handler_calls' = 0
    /\ at_arrival' = Snapshot
    /\ UNCHANGED <<thread_vars, module_vars, limiter_vars, verifiers, blacklist, whitelist, ip_blacklist,
                   subnets_whitelist, keys_on_subnet, ip_buckets, now>>

\* one middleware answers, or hands the request to call_next
Middleware(stage, resp, next_stage) ==
    /\ pc = stage
    /\ ran' = Append(ran, [index |-> idx, result |-> resp, at |-> now])
    /\ idx' = idx + 1
    /\ IF is_rejection(resp)
       THEN /\ response' = resp
            /\ pc' = "done"
       ELSE /\ response' = response
            /\ pc' = next_stage
    /\ UNCHANGED <<thread_vars, module_vars, limiter_vars, verifiers, blacklist, whitelist, ip_blacklist,
                   subnets_whitelist, keys_on_subnet, now, request,
                   handler_calls, at_arrival>>

CheckLists ==
    /\ Middleware("check_lists", check_lists(request), "dispatch")
    /\ UNCHANGED ip_buckets

Dispatch ==
    /\ Middleware("dispatch", IpLimiterMiddleware_dispatch(request), "router")
    /\ ip_buckets' = IpLimiterVerifier_buckets(request)

\* the router: a /method route runs InputHandlerRoute.custom_route_handler,
\* any other route its plain handler
Route ==
    /\ pc = "router"
    /\ LET resp == IF UnderMethod(request)
                   THEN InputHandlerRoute_checks(request, now)
                   ELSE NoResponse
       IN  /\ ran' = Append(ran, [index |-> idx, result |-> resp, at |-> now])
           /\ IF is_rejection(resp)
              THEN /\ response' = resp
                   /\ handler_calls' = handler_calls
              ELSE /\ response' = original_route_handler(request)
                   /\ handler_calls' = handler_calls + 1
    /\ pc' = "done"
    /\ UNCHANGED <<thread_vars, module_vars, limiter_vars, verifiers, blacklist, whitelist, ip_blacklist,
                   subnets_whitelist, keys_on_subnet, ip_buckets, now, request,
                   idx, at_arrival>>

append(list, item) == ListOf(list.items \cup {item})

add_to_blacklist(ss58_address) ==
    /\ blacklist' = append(IF ~Truthy(blacklist) THEN ListOf({}) ELSE blacklist,
                           ss58_address)
    /\ UNCHANGED <<thread_vars, module_vars, limiter_vars, verifiers, whitelist, ip_blacklist,
                   subnets_whitelist, keys_on_subnet, ip_buckets, now, request,
                   pc, idx, ran, response, handler_calls, at_arrival>>

add_to_whitelist(ss58_address) ==
    /\ whitelist' = append(IF ~Truthy(whitelist) THEN ListOf({}) ELSE whitelist,
                           ss58_address)
    /\ UNCHANGED <<thread_vars, module_vars, limiter_vars, verifiers, blacklist, ip_blacklist,
                   subnets_whitelist, keys_on_subnet, ip_buckets, now, request,
                   pc, idx, ran, response, handler_calls, at_arrival>>

\* ------------------------------------------------------------ inputs
TimeStamps == {NoTS, BadTS} \cup {iso_timestamp_now(t) : t \in 0..MaxTime}

MkBody(fmt, target_key, timestamp) ==
    [kind |-> "json", fmt |-> fmt,
     doc |-> [has_params |-> TRUE,
              params |-> [target_key |-> target_key, timestamp |-> timestamp,
                          msg |-> "all good?"],
              timestamp |-> NoTS],
     wrap |-> 0]

NoParamsBody == [JunkBytes EXCEPT !.kind = "json"]

\* what a signer may have signed for a request with this body and X-Timestamp:
\* the body as sent, the body in an envelope, the stamped document as json.dumps
\* writes it, the stamped document in the body's own formatting, other bytes
SignedBytes(body, x_timestamp) ==
    {body, BytesWrap(body), JunkBytes,
     stamped_body(body, x_timestamp),
     [stamped_body(body, x_timestamp) EXCEPT !.fmt = body.fmt]}

SignaturesFor(body, x_timestamp) ==
    {NoSig, NotHexSig} \cup
    {hex(sign(k, m)) : k \in PubKeys, m \in SignedBytes(body, x_timestamp)}

\* what ModuleClient.call sends at second t: the headers of
\* create_request_data and, as the body, the unstamped document as the HTTP
\* client writes it (json=json.loads(serialized_data))
ClientRequest(my_key, target_key, t, ip) ==
    LET d == create_request_data(my_key, target_key,
                                 [NoParams EXCEPT !.msg = "all good?"], t)
    IN  [path |-> "/method/prompt", client |-> ClientAt(ip),
         headers |-> d.headers, body |-> json_dumps(json_loads(d.body))]

Targets == {module_key, "ss1", ""}

\* ------------------------------------------------------------ module/module.py
\* the method names of the model, in the order inspect.getmembers lists them
\* (sorted by name)
MethodOrder == <<"generate", "get_uppercased", "prompt">>
MethodNames == {MethodOrder[i] : i \in DOMAIN MethodOrder}

NoInvocation == [fn |-> "", args |-> ""]

\* Module.extract_endpoints: the methods that carry _endpoint_def, keyed by
\* member name; @endpoint names the definition after the function
get_endpoints ==
    [n \in {m \in DOMAIN module_methods : module_methods[m]} |->
        [name |-> n, fn |-> n]]

\* server.py: each route's handler is partial(handler, endpoint_def)
register_endpoints(endpoints) ==
    [n \in DOMAIN endpoints |-> endpoints[n].fn]

\* the value of the loop variable endpoint_def once the for loop is over
last_endpoint_def(endpoints) ==
    LET last == CHOOSE i \in DOMAIN MethodOrder :
                    /\ MethodOrder[i] \in DOMAIN endpoints
                    /\ \A j \in DOMAIN MethodOrder :
                           MethodOrder[j] \in DOMAIN endpoints => j <= i
    IN  endpoints[MethodOrder[last]]

\* module.py: each route's handler is a closure that reads the loop variable
\* endpoint_def when it is called
module_register_endpoints(endpoints) ==
    [n \in DOMAIN endpoints |-> last_endpoint_def(endpoints).fn]

\* a request that the checks admitted reaches the router: no route for the
\* path is 404; the route validates the body against its Body model and its
\* handler calls the endpoint function with the decoded params
PostMethod ==
    /\ pc = "idle"
    /\ \E name \in MethodNames \cup {"undeclared"},
          body \in {MkBody("canon", module_key, NoTS), NoParamsBody} :
           /\ request' = MkRequest("/method/" \o name, ClientAt("ip1"), NoSig,
                                   "", "", NoTS, body)
           /\ IF name \notin DOMAIN routes
              THEN /\ response' = [status |-> 404, message |-> "Not Found",
                                   shape |-> "detail", header |-> ""]
                   /\ handler_calls' = handler_calls
                   /\ invoked' = NoInvocation
              ELSE /\ handler_calls' = handler_calls + 1
                   /\ IF json_loads(body).has_params
                      THEN /\ invoked' = [fn |-> routes[name],
                                          args |-> json_loads(body).params.msg]
                           /\ response' = [status |-> 200,
                                           message |-> routes[name],
                                           shape |-> "handler", header |-> ""]
                      ELSE /\ invoked' = NoInvocation
                           /\ response' = [status |-> 422,
                                           message |-> "validation error",
                                           shape |-> "validation_error",
                                           header |-> ""]
    /\ pc' = "done"
    /\ UNCHANGED <<thread_vars, limiter_vars, verifiers, blacklist, whitelist,
                   ip_blacklist, subnets_whitelist, keys_on_subnet, ip_buckets,
                   now, idx, ran, at_arrival, module_methods, routes>>

\* a module with the one endpoint /method/prompt
PromptModule ==
    /\ module_methods = [n \in {"prompt"} |-> TRUE]
    /\ routes = register_endpoints(get_endpoints)
    /\ invoked = NoInvocation

\* ------------------------------------------------------------ the route class
Subnets == {0, 1}

\* every ordered verifier list without repetition
VerifierLists ==
    {l \in UNION {[1..n -> VerifierKinds] : n \in 0..Cardinality(VerifierKinds)} :
        \A i, j \in DOMAIN l : i # j => l[i] # l[j]}

IdleInit ==
    /\ ip_buckets = [ip \in IPs |-> bucket_size]
    /\ now = 0
    /\ request = NoRequest
    /\ pc = "idle"
    /\ idx = 1
    /\ ran = <<>>
    /\ response = NoResponse
    /\ handler_calls = 0
    /\ at_arrival = NoSnapshot

\* no stake limiter is in use
NoStakeLimiter ==
    /\ node_up = TRUE
    /\ query_error = FALSE
    /\ stake = <<>>
    /\ key_ratio = <<>>
    /\ key_ratio_age = 0
    /\ max_cache_age = cache_age
    /\ buckets = <<>>
    /\ call = NoCall
    /\ calls = <<>>

Init ==
    /\ verifiers \in VerifierLists
    /\ \/ /\ blacklist = NoneList
          /\ whitelist = NoneList
          /\ ip_blacklist = NoneList
       \/ /\ blacklist = ListOf({"ss2"})
          /\ whitelist = ListOf({"ss1", "ss2"})
          /\ ip_blacklist = ListOf({"ip2"})
    /\ subnets_whitelist = NoneList
    /\ keys_on_subnet = [s \in Subnets |-> {}]
    /\ IdleInit
    /\ PromptModule
    /\ NoThreads
    /\ NoStakeLimiter

\* requests of every rejection class of the three verifiers
Arrive ==
    /\ pc = "idle"
    /\ \E client \in {NoClient, ClientAt("ip1"), ClientAt("ip2")},
          x_key \in {"", "pk1", "pk2"},
          x_timestamp \in {iso_timestamp_now(0), iso_timestamp_now(MaxTime)},
          target_key \in {module_key, "ss1"} :
           LET body == MkBody("canon", target_key, NoTS)
           IN  \E x_signature \in {NoSig,
                                   hex(sign("pk1", stamped_body(body, x_timestamp))),
                                   hex(sign("pk2", stamped_body(body, x_timestamp)))} :
                   Receive(MkRequest("/method/prompt", client, x_signature, x_key,
                                     "1", x_timestamp, body))

ArriveOther ==
    /\ pc = "idle"
    /\ \E client \in {NoClient, ClientAt("ip1")} :
           Receive(MkRequest("/docs", client, NoSig, "", "", NoTS, JunkBytes))

ClientCall ==
    /\ pc = "idle"
    /\ \E my_key \in PubKeys, target_key \in {module_key, "ss1"}, ip \in IPs :
           Receive(ClientRequest(my_key, target_key, now, ip))

Next ==
    \/ Arrive
    \/ ArriveOther
    \/ ClientCall
    \/ PassThrough
    \/ RunVerifier
    \/ CallHandler
    \/ Finish
    \/ Tick

Spec == Init /\ [][Next]_vars

\* ------------------------------------------------------------ the limiters alone
\* stake per key on the whitelisted subnets; a key without StakeFrom entries
\* is absent
StakeMaps ==
    {("pk1" :> a) : a \in {0, 1, 10, 100}} \cup
    {("pk1" :> a) @@ ("pk2" :> b) : a \in {0, 1, 10, 100}, b \in {1, 100}}

\* one limiter is mounted: verifiers names it
InitLimiters ==
    /\ verifiers \in {<<"ip">>, <<"stake">>}
    /\ blacklist = NoneList
    /\ whitelist = NoneList
    /\ ip_blacklist = NoneList
    /\ \/ /\ subnets_whitelist = NoneList
          /\ stake = ("pk1" :> 1)
       \/ /\ subnets_whitelist = ListOf({0})
          /\ stake \in StakeMaps
    /\ keys_on_subnet = [s \in Subnets |-> {}]
    /\ IdleInit
    /\ PromptModule
    /\ NoThreads
    /\ node_up = TRUE
    /\ query_error = FALSE
    /\ key_ratio = build_keys_refill_rate(subnets_whitelist)
    /\ key_ratio_age = 0
    /\ max_cache_age \in {cache_age, MaxMono}
    /\ buckets = <<>>
    /\ call = NoCall
    /\ calls = <<>>

NextLimiters ==
    \/ (verifiers = <<"stake">> /\ Allow("pk1"))
    \/ (verifiers = <<"ip">> /\ IpAllow("ip1"))
    \/ Elapse

SpecLimiters == InitLimiters /\ [][NextLimiters]_vars

\* ------------------------------------------------------------ the ModuleServer
Addresses == {"ss1", "ss2"}

InitServer ==
    /\ verifiers = <<>>
    /\ blacklist = NoneList
    /\ whitelist = NoneList
    /\ ip_blacklist = ListOf({"ip2"})
    /\ \/ /\ subnets_whitelist = NoneList
          /\ keys_on_subnet = [s \in Subnets |-> {}]
          /\ node_up \in BOOLEAN
       \/ /\ subnets_whitelist = ListOf({0})
          /\ keys_on_subnet = [s \in Subnets |-> IF s = 0 THEN {"ssS", "ss1"} ELSE {}]
          /\ node_up = TRUE
    /\ query_error = FALSE
    /\ IdleInit
    /\ PromptModule
    /\ NoThreads
    /\ stake = <<>>
    /\ key_ratio = <<>>
    /\ key_ratio_age = 0
    /\ max_cache_age = cache_age
    /\ buckets = <<>>
    /\ call = NoCall
    /\ calls = <<>>

ArriveServer ==
    /\ pc = "idle"
    /\ \E client \in {NoClient, ClientAt("ip1"), ClientAt("ip2")},
          x_key \in {"", NotHexKey, "pk1", "pk2"},
          signed \in BOOLEAN :
           LET body == MkBody("canon", module_key, NoTS)
               x_timestamp == iso_timestamp_now(0)
               x_signature == IF signed
                              THEN hex(sign("pk1", stamped_body(body, x_timestamp)))
                              ELSE NoSig
           IN  ServerReceive(MkRequest("/method/prompt", client, x_signature, x_key,
                                       "1", x_timestamp, body))

ArriveServerOther ==
    /\ pc = "idle"
    /\ \E client \in {NoClient, ClientAt("ip1")} :
           ServerReceive(MkRequest("/docs", client, NoSig, "", "", NoTS, JunkBytes))

ClientCallServer ==
    /\ pc = "idle"
    /\ \E my_key \in PubKeys, target_key \in {module_key, "ss1"} :
           LET ip == "ip1" IN ServerReceive(ClientRequest(my_key, target_key, now, ip))

AddToBlacklist == \E a \in Addresses : add_to_blacklist(a)

AddToWhitelist == \E a \in Addresses : add_to_whitelist(a)

NextServer ==
    \/ ArriveServer
    \/ ArriveServerOther
    \/ ClientCallServer
    \/ CheckLists
    \/ Dispatch
    \/ Route
    \/ Finish
    \/ Tick
    \/ AddToBlacklist
    \/ AddToWhitelist

SpecServer == InitServer /\ [][NextServer]_vars

\* ------------------------------------------------------------ ListVerifier alone
InitList ==
    /\ verifiers = <<"list">>
    /\ blacklist \in {NoneList, ListOf({}), ListOf({"ss1"}), ListOf({"ss1", "ss2"})}
    /\ whitelist \in {NoneList, ListOf({}), ListOf({"ss1"}),
                       ListOf({"some other address"})}
    /\ ip_blacklist \in {NoneList, ListOf({"ip1"})}
    /\ subnets_whitelist = NoneList
    /\ keys_on_subnet = [s \in Subnets |-> {}]
    /\ IdleInit
    /\ PromptModule
    /\ NoThreads
    /\ NoStakeLimiter

ArriveList ==
    /\ pc = "idle"
    /\ \E client \in {NoClient, ClientAt("ip1"), ClientAt("ip2")},
          x_key \in {"", NotHexKey, OddHexKey, BadLenKey, "pk1", "pk2"},
          signer \in PubKeys :
           LET body == MkBody("canon", module_key, NoTS)
               x_timestamp == iso_timestamp_now(now)
               x_signature == hex(sign(signer, stamped_body(body, x_timestamp)))
           IN  Receive(MkRequest("/method/prompt", client, x_signature, x_key,
                                 "1", x_timestamp, body))

NextList ==
    \/ ArriveList
    \/ ArriveOther
    \/ PassThrough
    \/ RunVerifier
    \/ CallHandler
    \/ Finish
    \/ Tick

SpecList == InitList /\ [][NextList]_vars

\* ------------------------------------------------------------ InputHandlerVerifier alone
InitInput ==
    /\ verifiers = <<"input">>
    /\ blacklist = NoneList
    /\ whitelist = NoneList
    /\ ip_blacklist = NoneList
    /\ \/ /\ subnets_whitelist = NoneList
          /\ keys_on_subnet = [s \in Subnets |-> {}]
       \/ /\ subnets_whitelist = ListOf({0})
          /\ keys_on_subnet \in {[s \in Subnets |-> {}],
                                  [s \in Subnets |-> IF s = 0 THEN {"ssS"} ELSE {}],
                                  [s \in Subnets |-> IF s = 0 THEN {"ssS", "ss1"} ELSE {}]}
    /\ IdleInit
    /\ PromptModule
    /\ NoThreads
    /\ NoStakeLimiter

Bodies ==
    {MkBody(fmt, target_key, timestamp) :
        fmt \in {"canon", "compact"}, target_key \in Targets,
        timestamp \in TimeStamps}
    \cup {NoParamsBody, JunkBytes}

\* requests that fail before any signature is verified
ArriveMalformed ==
    /\ pc = "idle"
    /\ \E x_key \in {"", NotHexKey, OddHexKey, BadLenKey, "pk1"},
          x_crypto \in {"", "1", "2", "x"},
          x_timestamp \in {NoTS, iso_timestamp_now(now)},
          body \in {MkBody("canon", module_key, NoTS), JunkBytes} :
           \E x_signature \in {NoSig, NotHexSig, hex(sign("pk1", body))} :
               Receive(MkRequest("/method/prompt", ClientAt("ip1"), x_signature,
                                 x_key, x_crypto, x_timestamp, body))

\* requests with a well-formed key and signature: every body, every
\* timestamp, every thing the signature may have been made over
ArriveSigned ==
    /\ pc = "idle"
    /\ \E x_timestamp \in TimeStamps, body \in Bodies :
           \E x_signature \in SignaturesFor(body, x_timestamp) \ {NoSig, NotHexSig} :
               Receive(MkRequest("/method/prompt", ClientAt("ip1"), x_signature,
                                 "pk1", "1", x_timestamp, body))

NextInput ==
    \/ ArriveMalformed
    \/ ArriveSigned
    \/ ArriveOther
    \/ ClientCall
    \/ PassThrough
    \/ RunVerifier
    \/ CallHandler
    \/ Finish
    \/ Tick

SpecInput == InitInput /\ [][NextInput]_vars

\* ------------------------------------------------------------ StakeLimiterVerifier alone
\* the caller pk1 has no StakeFrom entry, no stake, or a stake that earns tokens;
\* the limiter is mounted as a StakeLimiterVerifier or as the StakeLimiterRouter
InitStake ==
    /\ verifiers \in {<<"stake">>, <<"stake_router">>}
    /\ blacklist = NoneList
    /\ whitelist = NoneList
    /\ ip_blacklist = NoneList
    /\ \/ /\ subnets_whitelist = NoneList
          /\ stake = ("pk2" :> 100)
       \/ /\ subnets_whitelist = ListOf({0})
          /\ stake \in {("pk2" :> 100), ("pk1" :> 0) @@ ("pk2" :> 100),
                        ("pk1" :> 10)}
    /\ keys_on_subnet = [s \in Subnets |-> {}]
    /\ IdleInit
    /\ PromptModule
    /\ NoThreads
    /\ node_up = TRUE
    /\ query_error = FALSE
    /\ key_ratio = build_keys_refill_rate(subnets_whitelist)
    /\ key_ratio_age = 0
    /\ max_cache_age \in {cache_age, MaxMono}
    /\ buckets = <<>>
    /\ call = NoCall
    /\ calls = <<>>

ArriveStake ==
    /\ pc = "idle"
    /\ call.pc = "idle"
    /\ Len(calls) < MaxCalls
    /\ \E client \in {NoClient, ClientAt("ip1")}, x_key \in {"", "pk1"} :
           LET body == MkBody("canon", module_key, NoTS)
               x_timestamp == iso_timestamp_now(0)
               x_signature == hex(sign("pk1", stamped_body(body, x_timestamp)))
           IN  Receive(MkRequest("/method/prompt", client, x_signature, x_key,
                                 "1", x_timestamp, body))

\* no request gets past the verifier: the handler is never called
NextStake ==
    \/ ArriveStake
    \/ RunStakeVerifier
    \/ StakeLimiterRouter
    \/ Finish
    \/ Elapse

SpecStake == InitStake /\ [][NextStake]_vars

\* ------------------------------------------------------------ the registration check
\* Correctly signed, fresh requests for this module, against every registry of
\* two subnets and every state of the node.  verifiers = <<>> is a
\* ModuleServer (module/server.py), any other list a route class of
\* build_route_class.
InitRegistered ==
    /\ verifiers \in {<<>>, <<"input", "ip">>}
    /\ blacklist = NoneList
    /\ whitelist = NoneList
    /\ ip_blacklist = NoneList
    /\ subnets_whitelist \in {ListOf({0}), ListOf(Subnets)}
    /\ keys_on_subnet \in [Subnets -> SUBSET {module_key, "ss1"}]
    /\ IdleInit
    /\ PromptModule
    /\ NoThreads
    /\ node_up \in BOOLEAN
    /\ query_error \in BOOLEAN
    /\ node_up \/ ~query_error
    /\ stake = <<>>
    /\ key_ratio = <<>>
    /\ key_ratio_age = 0
    /\ max_cache_age = cache_age
    /\ buckets = <<>>
    /\ call = NoCall
    /\ calls = <<>>

ArriveRegistered ==
    /\ pc = "idle"
    /\ \E my_key \in PubKeys :
           LET req == ClientRequest(my_key, module_key, now, "ip1")
           IN  IF verifiers = <<>> THEN ServerReceive(req) ELSE Receive(req)

NextRegistered ==
    \/ ArriveRegistered
    \/ RunVerifier
    \/ CallHandler
    \/ CheckLists
    \/ Dispatch
    \/ Route
    \/ Finish
    \/ Tick

SpecRegistered == InitRegistered /\ [][NextRegistered]_vars

\* ------------------------------------------------------------ the endpoints
\* a module of any methods, mounted on the ModuleServer of server.py or of
\* module.py
InitEndpoints ==
    /\ verifiers = <<>>
    /\ blacklist = NoneList
    /\ whitelist = NoneList
    /\ ip_blacklist = NoneList
    /\ subnets_whitelist = NoneList
    /\ keys_on_subnet = [s \in Subnets |-> {}]
    /\ ip_buckets = [ip \in IPs |-> bucket_size]
    /\ now = 0
    /\ request = NoRequest
    /\ pc = "idle"
    /\ idx = 1
    /\ ran = <<>>
    /\ response = NoResponse
    /\ handler_calls = 0
    /\ at_arrival = NoSnapshot
    /\ NoStakeLimiter
    /\ \E declared \in SUBSET MethodNames :
           module_methods \in [declared -> BOOLEAN]
    /\ routes \in {register_endpoints(get_endpoints),
                   module_register_endpoints(get_endpoints)}
    /\ invoked = NoInvocation
    /\ NoThreads

NextEndpoints ==
    \/ PostMethod
    \/ Finish

SpecEndpoints == InitEndpoints /\ [][NextEndpoints]_vars

\* ------------------------------------------------------------ the limiter under threads
\* one StakeLimiter with a subnet whitelist, called from several threads
InitThreads ==
    /\ verifiers = <<"stake">>
    /\ blacklist = NoneList
    /\ whitelist = NoneList
    /\ ip_blacklist = NoneList
    /\ subnets_whitelist = ListOf({0})
    /\ stake \in {("pk1" :> 1), ("pk1" :> 10), ("pk1" :> 100),
                  ("pk1" :> 1) @@ ("pk2" :> 100)}
    /\ keys_on_subnet = [s \in Subnets |-> {}]
    /\ IdleInit
    /\ PromptModule
    /\ NoThreads
    /\ node_up = TRUE
    /\ query_error = FALSE
    /\ key_ratio = build_keys_refill_rate(subnets_whitelist)
    /\ key_ratio_age = 0
    /\ max_cache_age \in {cache_age, MaxMono}
    /\ buckets = <<>>
    /\ call = NoCall
    /\ calls = <<>>

NextThreads ==
    \/ \E t \in Threads : ThreadCall(t)
    \/ \E t \in Threads : ThreadLock(t)
    \/ \E t \in Threads : ThreadRemaining(t)
    \/ \E t \in Threads : ThreadReturn(t)
    \/ Elapse

SpecThreads == InitThreads /\ [][NextThreads]_vars

\* every thread that can take a step of its call takes it
FairThreads == SpecThreads /\ \A t \in Threads : WF_vars(ThreadStep(t))

\* ------------------------------------------------------------ claims
\* C1: for a request under /method the verifiers are awaited in list order; the
\* first one that answers (a rejection, or an exception leaving verify) ends the
\* loop, its answer is the response and no later verifier and no handler runs;
\* the route's handler runs, once, with its response returned unchanged, only
\* when every verifier of the list returned None.
C1_ChainShortCircuits ==
    /\ handler_calls <= 1
    /\ \A i \in 1..Len(ran) : ran[i].index = i
    /\ \A i \in 1..Len(ran) : i < Len(ran) => ran[i].result = NoResponse
    /\ (UnderMethod(request) /\ handler_calls = 1) =>
          /\ Len(ran) = Len(verifiers)
          /\ \A i \in 1..Len(ran) : ran[i].result = NoResponse
          /\ response = original_route_handler(request)
    /\ (UnderMethod(request) /\ pc = "done" /\ handler_calls = 0) =>
          /\ Len(ran) >= 1
          /\ ran[Len(ran)].result # NoResponse
          /\ response = ran[Len(ran)].result

C1_Witness ==
    /\ pc = "done"
    /\ UnderMethod(request)
    /\ Len(verifiers) = 3
    /\ Len(ran) = 2
    /\ ran[1].result = NoResponse
    /\ response.status = 401
    /\ handler_calls = 0

\* what the last check that ran answered
LastRan == ran[Len(ran)]

StaleResponse == JSONResponse(400, "Request is too stale", "")
SignatureMismatch == json_error(401, "Signatures doesn't match")
WrongTarget == json_error(401, "Wrong target_key in body")
Blacklisted == json_error(403, "You are blacklisted")
IpBlacklisted == json_error(403, "Your IP is blacklisted")
NotWhitelisted == json_error(403, "You are not whitelisted")

\* C2: in the running ModuleServer a request that check_lists or the input
\* handler route rejects has consumed no rate-limiter token: with no time
\* passed since it arrived, every IP bucket holds what it held at arrival.
C2_RejectedCostsNoToken ==
    (/\ pc = "done"
     /\ UnderMethod(request)
     /\ Len(ran) >= 1
     /\ LastRan.index \in {1, 3}
     /\ is_rejection(LastRan.result)
     /\ ~IsFault(LastRan.result)
     /\ now = at_arrival.now)
    => ip_buckets = at_arrival.ip_buckets

\* the request's signature verifies: over the body as sent or, with an
\* X-Timestamp header, over the body re-serialized with the timestamp added
SignatureVerifies(req) ==
    LET h == req.headers
        sig == parse_hex(h.x_signature)
        stamped == json_dumps([json_loads(req.body) EXCEPT !.timestamp = h.x_timestamp])
    IN  /\ sig.signer = h.x_key
        /\ \/ sig.over \in {req.body, BytesWrap(req.body)}
           \/ /\ h.x_timestamp # NoTS
              /\ sig.over \in {stamped, BytesWrap(stamped)}

\* the request gets as far as the comparison of signatures: its three headers
\* are there, the scheme is SR25519, key and signature are hex of a public key
\* and, when the legacy attempt is made, the body is JSON
ReachesSignatureCheck(req) ==
    /\ parse_hex_ok(req.headers.x_signature)
    /\ req.headers.x_key \in PubKeys
    /\ req.headers.x_crypto = "1"
    /\ req.headers.x_timestamp # NoTS => CanLoad(req.body)

InputRan(i) == i \in 1..Len(ran) /\ UnderMethod(request) /\ verifiers[ran[i].index] = "input"

\* C3: a request whose signature verifies and whose params map has no
\* target_key, or one that is not the module's own address, is answered 401
\* "Wrong target_key in body" by the Input Handler Verifier and the handler is
\* not called, whatever else the params hold.
C3_WrongTargetRejected ==
    \A i \in 1..Len(ran) :
        (/\ InputRan(i)
         /\ ReachesSignatureCheck(request)
         /\ SignatureVerifies(request)
         /\ CanLoad(request.body)
         /\ json_loads(request.body).has_params
         /\ json_loads(request.body).params.target_key # module_key)
        => /\ ran[i].result = WrongTarget
           /\ handler_calls = 0
           /\ pc = "done"
           /\ response = WrongTarget

C3_Witness ==
    /\ pc = "done"
    /\ InputRan(1)
    /\ ReachesSignatureCheck(request)
    /\ SignatureVerifies(request)
    /\ CanLoad(request.body)
    /\ json_loads(request.body).has_params
    /\ json_loads(request.body).params.target_key = ""
    /\ response = WrongTarget
    /\ handler_calls = 0

\* C4: a request that passes every other check of the Input Handler Verifier
\* is answered 400 "Request is too stale" exactly when the time of the check
\* minus the request's time is greater than request_staleness; at an age up to
\* and including request_staleness it is accepted.  The same holds of the
\* ModuleServer's input handler route.
C4_StaleIffOlderThanWindow ==
    \A i \in 1..Len(ran) :
        (InputRan(i) /\ CanLoad(request.body) /\ json_loads(request.body).has_params
         /\ IsoOk(timestamp_to_use(request)))
        => LET age == ran[i].at - fromisoformat(timestamp_to_use(request))
           IN  /\ check_inputs(request, request.body, module_key) = NoResponse
                  => /\ ran[i].result = StaleResponse <=> age > request_staleness
                     /\ age <= request_staleness => ran[i].result = NoResponse
               /\ InputHandlerRoute_check_inputs(request, request.body, module_key) = NoResponse
                  => /\ InputHandlerRoute_checks(request, ran[i].at) = StaleResponse
                           <=> age > request_staleness
                     /\ age <= request_staleness
                           => InputHandlerRoute_checks(request, ran[i].at) = NoResponse

C4_Witness ==
    /\ pc = "done"
    /\ InputRan(1)
    /\ handler_calls = 1
    /\ IsoOk(timestamp_to_use(request))
    /\ ran[1].at - fromisoformat(timestamp_to_use(request)) = request_staleness
    /\ ran[1].result = NoResponse

\* C5: for a request that gets as far as the comparison of signatures, the
\* signature check lets it through exactly when its signature verifies over
\* the raw body, or an X-Timestamp header is present and it verifies over the
\* parsed body re-serialized with that timestamp added; otherwise the answer
\* is 401 "Signatures doesn't match", it is the response, and no later check
\* and no handler runs.
C5_SignatureAcceptedIffVerifies ==
    \A i \in 1..Len(ran) :
        (InputRan(i) /\ ReachesSignatureCheck(request))
        => /\ ran[i].result # SignatureMismatch <=> SignatureVerifies(request)
           /\ ran[i].result = SignatureMismatch
                 => /\ response = SignatureMismatch
                    /\ pc = "done"
                    /\ Len(ran) = i
                    /\ handler_calls = 0

C5_Witness ==
    /\ pc = "done"
    /\ InputRan(1)
    /\ ReachesSignatureCheck(request)
    /\ request.headers.x_timestamp # NoTS
    /\ parse_hex(request.headers.x_signature).over # request.body
    /\ parse_hex(request.headers.x_signature).over # BytesWrap(request.body)
    /\ SignatureVerifies(request)
    /\ handler_calls = 1
    /\ response.status = 200

ClientBuilt(req) ==
    \E my_key \in PubKeys, target_key \in Targets, t \in 0..MaxTime, ip \in IPs :
        req = ClientRequest(my_key, target_key, t, ip)

NoAccessLists == ~Truthy(blacklist) /\ ~Truthy(whitelist) /\ ~Truthy(ip_blacklist)

Caller(req) == ss58_encode(req.headers.x_key)

ListCheckRan == UnderMethod(request) /\ Len(ran) >= 1

\* C7: once an address is on the blacklist and on the whitelist, in whichever
\* order add_to_blacklist and add_to_whitelist put it there, a request from it
\* is never passed by the list check and never answered "You are not
\* whitelisted"; carrying connection info it is answered 403 "You are
\* blacklisted".  ListVerifier.verify answers the same.
C7_BlacklistOvercomesWhitelist ==
    (/\ ListCheckRan
     /\ Caller(request) \in at_arrival.blacklist.items
     /\ Caller(request) \in at_arrival.whitelist.items)
    => /\ ran[1].result \notin {NoResponse, NotWhitelisted}
       /\ ListVerifier_verify(request) \notin {NoResponse, NotWhitelisted}
       /\ request.client.present
            => /\ ran[1].result = Blacklisted
               /\ response = Blacklisted
               /\ handler_calls = 0
               /\ ListVerifier_verify(request) = Blacklisted

C7_Witness ==
    /\ pc = "done"
    /\ ListCheckRan
    /\ Caller(request) \in at_arrival.blacklist.items
    /\ Caller(request) \in at_arrival.whitelist.items
    /\ response = Blacklisted

\* the first rule of a rule list that matches: <<status, message>>, message
\* "" where the rule names none, <<0, "">> for a pass
FirstMatch(rules) ==
    IF \E i \in 1..Len(rules) : rules[i].when
    THEN LET first == CHOOSE i \in 1..Len(rules) :
                        rules[i].when /\ \A j \in 1..(i - 1) : ~rules[j].when
         IN  rules[first].answer
    ELSE <<0, "">>

Rule(when, status, message) == [when |-> when, answer |-> <<status, message>>]

Answers(resp, expected) ==
    /\ resp.status = expected[1]
    /\ expected[2] # "" => resp.message = expected[2]
    /\ expected[1] = 0 <=> resp = NoResponse

ListRules(req) ==
    <<Rule(~req.client.present, 400, ""),
      Rule(Truthy(blacklist) /\ try_ss58_decode(req.headers.x_key) \in blacklist.items,
           403, "You are blacklisted"),
      Rule(Truthy(ip_blacklist) /\ req.client.host \in ip_blacklist.items,
           403, "Your IP is blacklisted"),
      Rule(Truthy(whitelist) /\ try_ss58_decode(req.headers.x_key) \notin whitelist.items,
           403, "You are not whitelisted")>>

ListVerifierRan(i) ==
    i \in 1..Len(ran) /\ UnderMethod(request) /\ verifiers[ran[i].index] = "list"

\* C8 as the specification states it: the List Verifier answers by the first
\* matching rule of: missing X-Key -> 400; no connection info -> 400;
\* blacklisted identity -> 403; blacklisted IP -> 403; whitelist configured
\* and identity not on it -> 403; otherwise pass.
C8_Original ==
    \A i \in 1..Len(ran) :
        ListVerifierRan(i) =>
            Answers(ran[i].result,
                    FirstMatch(<<Rule(request.headers.x_key = "", 400, "")>>
                               \o ListRules(request)))

\* C8: the List Verifier answers by the first matching rule of: missing X-Key
\* -> 400; X-Key that does not decode into an ss58 address -> 400; no
\* connection info -> 400; blacklisted identity -> 403 "You are blacklisted";
\* blacklisted IP -> 403 "Your IP is blacklisted"; whitelist configured and
\* identity not on it -> 403 "You are not whitelisted"; otherwise pass.
C8_FirstMatchingRule ==
    \A i \in 1..Len(ran) :
        ListVerifierRan(i) =>
            Answers(ran[i].result,
                    FirstMatch(<<Rule(request.headers.x_key = "", 400, ""),
                                 Rule(try_ss58_decode(request.headers.x_key) = "none",
                                      400, "")>>
                               \o ListRules(request)))

C8_Witness ==
    /\ pc = "done"
    /\ ListVerifierRan(1)
    /\ request.headers.x_key = NotHexKey
    /\ request.client.present
    /\ ~Truthy(whitelist)
    /\ response.status = 400
    /\ handler_calls = 0

\* C9: access-list changes reach the running server.  A request that arrives
\* after add_to_blacklist(a) from a is never passed and, carrying connection
\* info, answered 403 "You are blacklisted".  A request that arrives after an
\* add_to_whitelist from an identity neither blacklisted nor whitelisted is
\* never passed and, coming from an IP that is not blacklisted, answered 403
\* "You are not whitelisted"; one from a whitelisted identity that is not
\* blacklisted, from such an IP, passes the list check.  Every list is None
\* when the server is constructed.
C9_ListChangesTakeEffect ==
    (ListCheckRan /\ request.headers.x_key \in PubKeys) =>
        LET a == Caller(request)
            clean_ip == /\ request.client.present
                        /\ request.client.host \notin ip_blacklist.items
        IN  /\ a \in at_arrival.blacklist.items
                 => /\ ran[1].result # NoResponse
                    /\ request.client.present => ran[1].result = Blacklisted
            /\ (/\ Truthy(at_arrival.whitelist)
                /\ a \notin whitelist.items
                /\ a \notin blacklist.items)
                 => /\ ran[1].result # NoResponse
                    /\ clean_ip => ran[1].result = NotWhitelisted
            /\ (/\ a \in at_arrival.whitelist.items
                /\ a \notin blacklist.items
                /\ clean_ip)
                 => ran[1].result = NoResponse

C9_Witness ==
    /\ pc = "done"
    /\ ListCheckRan
    /\ Caller(request) = "ss1"
    /\ at_arrival.blacklist = NoneList
    /\ at_arrival.whitelist = ListOf({"ss2"})
    /\ response = NotWhitelisted

CallsOf(limiter, key) ==
    SelectSeq(calls, LAMBDA c : c.limiter = limiter /\ c.key = key)

\* cap + 1 calls at the time the bucket is made: the first cap succeed, the
\* next fails; the call made period later succeeds, the one after it fails
Conserves(ck, cap, period) ==
    Len(ck) >= 1 =>
        LET t0 == ck[1].at
        IN  /\ \A i \in 1..Len(ck) :
                  (i <= cap + 1 /\ ck[i].at = t0) => (ck[i].ok <=> i <= cap)
            /\ (Len(ck) >= cap + 2 /\ ck[cap + 1].at = t0
                   /\ ck[cap + 2].at = t0 + period)
                 => /\ ck[cap + 2].ok
                    /\ (Len(ck) >= cap + 3 /\ ck[cap + 3].at = t0 + period)
                          => ~ck[cap + 3].ok

\* C10: for either limiter and a key that earns tokens, of floor(capacity) + 1
\* calls of allow made when the bucket is created exactly the first
\* floor(capacity) succeed; after 1/r seconds without calls one more call
\* succeeds (it returns, and returns true) and the next fails.
C10_TokenBucketConservation ==
    /\ Conserves(CallsOf("ip", "ip1"), bucket_size, 1)
    /\ \A key \in PubKeys :
          (/\ Truthy(subnets_whitelist)
           /\ ratio_of(key) > 0
           /\ (2 * epoch) % ratio_of(key) = 0)
          => LET ck == CallsOf("stake", key)
                 cap == fill_tokens(key) \div 2
                 period == (2 * epoch) \div ratio_of(key)
             IN  /\ Conserves(ck, cap, period)
                 /\ ~(/\ call.pc = "blocked"
                      /\ call.key = key
                      /\ Len(ck) = cap + 1
                      /\ ck[cap + 1].at = ck[1].at
                      /\ now = ck[1].at + period)

\* the answer of the stake verifier to the request being handled
StakeVerifierRan ==
    /\ Len(ran) >= 1
    /\ UnderMethod(request)
    /\ verifiers[LastRan.index] = "stake"
    /\ request.client.present
    /\ request.headers.x_key # ""

\* C11: under the stake limiter with a subnet whitelist, a caller without
\* stake (0 staked, or absent from key_ratio) has its first call allowed and
\* the call that follows at once answered 429 with a retry-after header;
\* neither call ends in an unhandled exception.
C11_ZeroStakeSecondCall429 ==
    (/\ StakeVerifierRan
     /\ Truthy(subnets_whitelist)
     /\ ratio_of(request.headers.x_key) = 0)
    => LET ck == CallsOf("stake", request.headers.x_key)
       IN  /\ ~IsFault(LastRan.result)
           /\ Len(ck) = 1 => LastRan.result = NoResponse
           /\ (Len(ck) = 2 /\ ck[2].at = ck[1].at)
                => /\ LastRan.result.status = 429
                   /\ LastRan.result.header = "X-RateLimit-TryAfter"

\* C12: a stake limiter without a subnet whitelist allows every call of allow
\* and leaves the buckets alone: none is created, refilled or decremented.
C12_NoWhitelistBypassesBuckets ==
    ~Truthy(subnets_whitelist) =>
        /\ \A i \in 1..Len(calls) : calls[i].limiter = "stake" => calls[i].ok
        /\ buckets = <<>>
        /\ call.pc = "idle"

C12_Witness ==
    /\ subnets_whitelist = NoneList
    /\ Len(CallsOf("stake", "pk1")) >= 3
    /\ CallsOf("stake", "pk1")[3].at > CallsOf("stake", "pk1")[1].at + max_cache_age
    /\ CallsOf("stake", "pk1")[3].ok

\* position, among the checks that ran, of the one that holds the registration
\* check: the route of a ModuleServer, the first verifier of a route class
RegistrationAt == IF verifiers = <<>> THEN 3 ELSE 1

\* a request built by ModuleClient.call for this module came to the
\* registration check while it was fresh
RegistrationRan ==
    /\ UnderMethod(request)
    /\ ClientBuilt(request)
    /\ ~subnets_whitelist.isNone
    /\ Len(ran) >= RegistrationAt
    /\ (verifiers # <<>> => verifiers[1] = "input")
    /\ ~too_stale(ran[RegistrationAt].at, fromisoformat(request.headers.x_timestamp))

RegistrationAnswer == ran[RegistrationAt].result

SharesSubnet(address) ==
    \E sn \in subnets_whitelist.items :
        address \in keys_on_subnet[sn] /\ module_key \in keys_on_subnet[sn]

\* C13: with a subnet whitelist and the chain answering, the registration check
\* passes a request if and only if the caller and the server are both
\* registered on one of the configured subnets; every other request is
\* answered 403.  (Stated for registries that hold a key on some configured
\* subnet: for an empty registry the route class answers 503.)
C13_PassesIffSharedSubnet ==
    (/\ RegistrationRan
     /\ node_up /\ ~query_error
     /\ \E sn \in subnets_whitelist.items : keys_on_subnet[sn] # {}) =>
        /\ RegistrationAnswer = NoResponse <=> SharesSubnet(Caller(request))
        /\ ~SharesSubnet(Caller(request)) => RegistrationAnswer.status = 403

\* the keys of no configured subnet can be had from the chain
ChainUnavailable == ~node_up \/ query_error

\* C14: with a subnet whitelist, when the registered keys cannot be had from
\* the chain the route class answers 503, and neither the rate limiter nor the
\* handler sees the request.
C14_ChainUnavailableIs503 ==
    (RegistrationRan /\ verifiers # <<>> /\ ChainUnavailable) =>
        /\ RegistrationAnswer.status = 503
        /\ Len(ran) = 1
        /\ handler_calls = 0
        /\ (now = at_arrival.now => ip_buckets = at_arrival.ip_buckets)

\* C15: when the chain query fails, in whatever way, the lookup of a subnet's
\* keys gives the empty list and raises nothing: the registration check ends
\* without an exception and finds nobody registered.
C15_FailedQueryIsEmptyList ==
    (RegistrationRan /\ ChainUnavailable) =>
        /\ ~IsFault(RegistrationAnswer)
        /\ RegistrationAnswer # NoResponse

\* C16: every rejection a verifier of the chain answers with has the body
\* {"error": {"code": <status>, "message": <text>}}.
C16_RejectionsCarryCodeAndMessage ==
    \A i \in 1..Len(ran) :
        (/\ UnderMethod(request)
         /\ verifiers # <<>>
         /\ is_rejection(ran[i].result)
         /\ ~IsFault(ran[i].result))
        => ran[i].result.shape = "error_code_message"

\* C17: a request the mounted limiter denies (allow returned false) is
\* answered 429 with an X-RateLimit-* header; here the stake limiter, whose
\* header is X-RateLimit-TryAfter.
C17_DenialIs429WithHeader ==
    (/\ StakeVerifierRan
     /\ calls # <<>>
     /\ ~calls[Len(calls)].ok)
    => /\ LastRan.result.status = 429
       /\ LastRan.result.header = "X-RateLimit-TryAfter"

\* C18: stake_to_ratio is tiered and monotone.  A stake below the lowest
\* threshold (one unit of 10 000 COMAI) has ratio 0; the ratios taken above it
\* are three more, so four tiers in all; a larger stake never has a smaller
\* ratio (each step of one unit keeps or raises the ratio, hence s1 < s2 gives
\* ratio(s1) <= ratio(s2)), and the ratios the limiter holds for its keys are
\* ordered as their stakes.
C18_StakeToRatioTieredMonotone ==
    /\ stake_to_ratio(0) = 0
    /\ \A s \in 1..MaxStake : stake_to_ratio(s) > 0
    /\ Cardinality({stake_to_ratio(s) : s \in 0..MaxStake}) = 4
    /\ \A s \in 0..(MaxStake - 1) : stake_to_ratio(s) <= stake_to_ratio(s + 1)
    /\ Truthy(subnets_whitelist) =>
          \A k1, k2 \in DOMAIN key_ratio :
              stake[k1] < stake[k2] => key_ratio[k1] <= key_ratio[k2]

C18_Witness ==
    /\ Truthy(subnets_whitelist)
    /\ DOMAIN key_ratio = {"pk1", "pk2"}
    /\ stake["pk1"] = 10
    /\ stake["pk2"] = 100
    /\ key_ratio["pk1"] < key_ratio["pk2"]
    /\ calls # <<>>

\* C19: for a module that declares several endpoints, get_endpoints holds
\* exactly the methods declared with @endpoint, each keyed by its name; an
\* admitted POST /method/<name> calls the function declared under that name,
\* never another endpoint's, with the decoded params; a name that was not
\* declared is answered 404 and no endpoint function is called.
C19_EachRouteCallsItsOwnEndpoint ==
    /\ DOMAIN get_endpoints = {m \in DOMAIN module_methods : module_methods[m]}
    /\ \A n \in DOMAIN get_endpoints :
           get_endpoints[n].name = n /\ get_endpoints[n].fn = n
    /\ pc = "done" =>
           \A n \in MethodNames \cup {"undeclared"} :
               request.path = "/method/" \o n =>
                   IF n \in DOMAIN get_endpoints
                   THEN json_loads(request.body).has_params =>
                            invoked = [fn |-> n,
                                       args |-> json_loads(request.body).params.msg]
                   ELSE /\ response.status = 404
                        /\ invoked = NoInvocation
                        /\ handler_calls = 0

\* C20: the timestamp that staleness is evaluated against is params.timestamp
\* of the body whenever the body carries one; the X-Timestamp header is used
\* only when the body carries none; when neither is present, or the chosen
\* value is not an ISO-8601 time, the request is answered 400.
PreferredTimestamp(req) ==
    IF json_loads(req.body).params.timestamp # NoTS
    THEN json_loads(req.body).params.timestamp
    ELSE req.headers.x_timestamp

C20_BodyTimestampIsPreferred ==
    \A i \in 1..Len(ran) :
        (InputRan(i) /\ check_inputs(request, request.body, module_key) = NoResponse)
        => LET chosen == PreferredTimestamp(request)
           IN  IF ~IsoOk(chosen)
               THEN ran[i].result.status = 400
               ELSE IF too_stale(ran[i].at, fromisoformat(chosen))
               THEN ran[i].result.status = 400
               ELSE ran[i].result = NoResponse

\* C21: the Input Handler Verifier evaluates its checks in the order required
\* headers, hex decoding, signature, target_key, timestamp parse, staleness,
\* subnet registration, and answers with the first check that fails; a stale
\* request is answered 400 before the registration check is made, also when
\* its caller is not registered.
C21_StalenessBeforeRegistration ==
    (verifiers # <<>> /\ InputRan(1) /\ ran[1].index = 1) =>
        LET h == get_headers_dict(request.headers)
            s == check_signature(request.headers, request.body, module_key)
        IN  IF h # NoResponse THEN ran[1].result = h
            ELSE IF s # NoResponse THEN ran[1].result = s
            ELSE IF ~IsoOk(timestamp_to_use(request))
            THEN ran[1].result.status = 400
            ELSE IF too_stale(ran[1].at, fromisoformat(timestamp_to_use(request)))
            THEN ran[1].result.status = 400
            ELSE ran[1].result = check_key_registered(request.headers)

\* the allow(key) calls that returned true
Granted(key) == Len(SelectSeq(CallsOf("allow", key), LAMBDA c : c.ok))

C23_EveryCallReturns ==
    \A t \in Threads : (threads[t].pc # "idle") ~> (threads[t].pc = "idle")

\* the timestamps that the signature of the request covers: params.timestamp
\* when the raw body was signed, the X-Timestamp header when the stamped body
\* was signed
SignedTimestamps(req) ==
    LET h == req.headers
        sig == parse_hex(h.x_signature)
        stamped == stamped_body(req.body, h.x_timestamp)
    IN  {json_loads(req.body).params.timestamp :
            x \in {req.body, BytesWrap(req.body)} \cap {sig.over}}
        \cup {h.x_timestamp :
                x \in {y \in {stamped, BytesWrap(stamped)} :
                          h.x_timestamp # NoTS /\ y = sig.over}}

\* C24: a validly signed request that comes to the staleness decision more
\* than request_staleness seconds after the timestamp its signer put in it is
\* rejected, whatever X-Timestamp header it carries: the timestamp that
\* staleness is decided on is one the verified signature covers.
C24_ReplayBound ==
    \A i \in 1..Len(ran) :
        (InputRan(i) /\ check_inputs(request, request.body, module_key) = NoResponse)
        => /\ \A ts \in SignedTimestamps(request) :
                  (IsoOk(ts) /\ too_stale(ran[i].at, fromisoformat(ts)))
                      => ran[i].result.status = 400
           /\ ran[i].result = NoResponse
                  => timestamp_to_use(request) \in SignedTimestamps(request)

\* C25: sink overflow.  Whenever _refill adds tokens to a key's bucket the
\* bucket then holds at most the greatest refill rate of the stake snapshot,
\* however long the key was idle; the cap is that greatest rate of all keys,
\* not the key's own rate or its initial fill: a key that earned at least as
\* much is left with exactly the greatest rate.
C25_RefillCappedAtGreatestRate ==
    Truthy(subnets_whitelist) =>
        \A key \in DOMAIN buckets :
            new_tokens(key) > 0 =>
                /\ refill(key)[key].tokens <= max_key_ratio
                /\ buckets[key].tokens + 2 * new_tokens(key) >= max_key_ratio
                       => refill(key)[key].tokens = max_key_ratio

\* a key idle long enough to earn more than its own rate and its initial fill
C25_Witness ==
    /\ Truthy(subnets_whitelist)
    /\ ~cache_too_old
    /\ "pk1" \in DOMAIN buckets
    /\ new_tokens("pk1") > 0
    /\ refill("pk1")["pk1"].tokens = max_key_ratio
    /\ max_key_ratio > ratio_of("pk1")
    /\ max_key_ratio > fill_tokens("pk1")

\* the calls of allow(key) made at second t that returned true
GrantedAt(key, t) ==
    Len(SelectSeq(CallsOf("stake", key), LAMBDA c : c.ok /\ c.at = t))

\* C26: the buckets of the stake limiter are one state per server process,
\* shared by all requests: a token that one request of a key took is missing
\* for the later requests of that key, so no key gets a new initial fill by
\* sending a new request.  Within one second a key is granted at most what a
\* bucket can hold, and a key that earns nothing is granted its initial fill
\* once.
C26_BucketsSharedByAllRequests ==
    Truthy(subnets_whitelist) =>
        \A key \in PubKeys :
            /\ \A t \in 0..MaxMono :
                   2 * GrantedAt(key, t) <=
                       IF fill_tokens(key) > max_key_ratio
                       THEN fill_tokens(key) ELSE max_key_ratio
            /\ ratio_of(key) = 0 =>
                   2 * Len(SelectSeq(CallsOf("stake", key), LAMBDA c : c.ok))
                       <= fill_tokens(key)

\* C27: no verifier raises an unhandled exception for an input the client
\* controls: an X-Crypto that is not an integer or not a supported type, a
\* body that is not JSON or has no params object, a key that is not valid hex
\* each end in a 4xx JSON rejection; every answer of a verifier is a pass or
\* a 4xx rejection.
C27_VerifiersNeverFault ==
    \A i \in 1..Len(ran) :
        /\ ~IsFault(ran[i].result)
        /\ ran[i].result # NoResponse =>
               (ran[i].result.status >= 400 /\ ran[i].result.status < 500)

\* C28: a refill never lowers a bucket: in every reachable state of the stake
\* limiter a key's token count after _refill is at least its count before, so
\* a key with a positive refill rate is allowed again once it has waited long
\* enough to earn a token.
C28_RefillNeverLowers ==
    (Truthy(subnets_whitelist) /\ ~cache_too_old) =>
        \A key \in DOMAIN buckets :
            /\ refill(key)[key].tokens >= buckets[key].tokens
            /\ (ratio_of(key) > 0 /\ new_tokens(key) >= 1)
                   => allow_ok(key)

\* the calls among the first i of a call sequence that returned true
GrantedUpTo(ck, i) == Cardinality({j \in 1..i : ck[j].ok})

\* C29: no over-granting.  With a subnet whitelist and an unchanged stake
\* snapshot, for every key and every sequence of calls of allow(key), the
\* calls that returned true within T seconds of the creation of the key's
\* bucket are at most the initial fill plus floor(rate * T); a key of rate 0
\* is allowed at most its initial fill.
C29_NoOverGranting ==
    Truthy(subnets_whitelist) =>
        \A key \in PubKeys :
            LET ck == CallsOf("stake", key)
            IN  \A i \in 1..Len(ck) :
                    2 * GrantedUpTo(ck, i) <=
                        fill_tokens(key)
                        + 2 * (((ck[i].at - ck[1].at) * ratio_of(key)) \div (2 * epoch))

\* a key that was granted its initial fill and every token it earned since
C29_Witness ==
    /\ Truthy(subnets_whitelist)
    /\ LET ck == CallsOf("stake", "pk1")
       IN  /\ Len(ck) >= 3
           /\ ck[Len(ck)].at > ck[1].at
           /\ ck[Len(ck)].ok
           /\ 2 * GrantedUpTo(ck, Len(ck)) =
                  fill_tokens("pk1")
                  + 2 * (((ck[Len(ck)].at - ck[1].at) * ratio_of("pk1")) \div (2 * epoch))

\* C30: the assertions of the IP limiter (request.client is present and has a
\* host) never fail for a request that reaches it: a request without
\* connection info is answered 400 by the list check before the IP limiter
\* runs, wherever the limiter is mounted.
C30_IpLimiterAssertionsHold ==
    /\ \A i \in 1..Len(ran) :
           ran[i].result \notin {Fault("AssertionError: request is invalid"),
                                 Fault("AssertionError: request is invalid.")}
    /\ response \notin {Fault("AssertionError: request is invalid"),
                        Fault("AssertionError: request is invalid.")}

====
